---- MODULE Spec2Model ----
(***************************************************************************)
(* The bill-annotation pipeline of pipeline/scripts: six stage scripts     *)
(* (3 categorize, 4 summarize, 5 executive summary, 6 assess impact,       *)
(* 8 key concerns, 9 metadata) that each load one bill JSON file, annotate *)
(* it in memory and write it back.                                         *)
(*                                                                         *)
(* A Python dict is a function whose DOMAIN is the set of keys present, so *)
(* "'summary' in section" is "summary" \in DOMAIN section.  A text that an *)
(* annotator (the LLM call) produces is one of a few distinct strings.     *)
(* Confidence is counted in tenths.                                        *)
(***************************************************************************)
EXTENDS Integers, Sequences, FiniteSets, TLC

\* ---------------------------------------------------------------- bounds
\* Sections of the short document (every stage runs on it).
NSec == 3
\* Sections of the long document (the batched stages run on it).
NLong == 12
\* Script runs in one behaviour.
MaxRuns == 2

\* ------------------------------------------------------ program constants
BATCH_SIZE == 10

CATEGORY_PROVISION == "provision"
CATEGORY_PREAMBLE == "preamble"
CATEGORY_METADATA == "metadata"

\* A faulty set of categories, which admits an answer outside the three: C26
\* must not hold of a script that uses it.
OpenCategories == {CATEGORY_PROVISION, CATEGORY_PREAMBLE, CATEGORY_METADATA, "other"}

\* The closed set the categorizer is declared to return.
SectionCategory == {CATEGORY_PROVISION, CATEGORY_PREAMBLE, CATEGORY_METADATA}

KEY_SECTIONS == "sections"
KEY_CATEGORY == "category"
KEY_SUMMARY == "summary"
KEY_IMPACT == "impact"
KEY_EXEC == "executiveSummary"
KEY_CONCERNS == "keyConcerns"
KEY_METADATA == "metadata"

\* The placeholder bill context used when there is no executive summary.
NO_EXEC_SUMMARY == "No executive summary available."

\* The stage scripts.
CATEGORIZE == "3_categorize_sections"
SUMMARIZE == "4_summarize_sections"
EXECUTIVE == "5_generate_executive_summary"
IMPACT == "6_assess_impact"
CONCERNS == "8_generate_key_concerns"
METADATA == "9_enrich_metadata"

SectionStages == {CATEGORIZE, SUMMARIZE, IMPACT}
BatchedStages == {SUMMARIZE, IMPACT}
BillStages == {EXECUTIVE, CONCERNS, METADATA}
Stages == SectionStages \cup BillStages

\* ------------------------------------------------------------ Python dicts
EmptyDict == <<>>

Has(d, k) == k \in DOMAIN d

Get(d, k, default) == IF k \in DOMAIN d THEN d[k] ELSE default

Put(d, k, v) == [x \in (DOMAIN d) \cup {k} |-> IF x = k THEN v ELSE d[x]]

\* Python truthiness of a str and of a dict or list.
TruthyStr(s) == s # ""

TruthyDict(d) == DOMAIN d # {}

\* section.get('category', {}).get('type', default)
CategoryType(section, default) == Get(Get(section, KEY_CATEGORY, EmptyDict), "type", default)

\* ------------------------------------------------------------------ state
VARIABLES
    disk,                  \* the document the bill JSON file holds when it is whole
    torn,                  \* TRUE while the file is truncated or partly written
    pc,                    \* "idle": no script runs; else the running script's position
    stage,                 \* the running (at idle: the last) script
    dry_run,               \* its --dry-run flag
    force,                 \* its --force flag
    bill_data,             \* its in-memory document
    idx,                   \* its loop position (1-based)
    count,                 \* summarized_count / assessed_count
    impactful_provisions,  \* script 8: the candidate list
    key_concerns,          \* script 8: the concerns generated so far
    bill_context,          \* scripts 6 and 8: the executive summary passed as context
    loaded,                \* history: the document the run loaded
    calls,                 \* history: the items the annotator was invoked for in the run
    failed,                \* history: the items whose annotator call raised in the run
    unsaved,               \* history: items completed in memory since the last write began
    outcome,               \* history: how the last run ended
    runs,                  \* history: how many script runs were started
    other                  \* a second process on the same file: a summary run

vars == <<disk, torn, pc, stage, dry_run, force, bill_data, idx, count,
          impactful_provisions, key_concerns, bill_context,
          loaded, calls, failed, unsaved, outcome, runs, other>>

run_vars == <<bill_data, idx, count, impactful_provisions, key_concerns, bill_context>>

hist_vars == <<loaded, calls, failed, unsaved>>

flag_vars == <<stage, dry_run, force>>

\* The document of the upstream producer: sections with identity and positional
\* fields only.
InitialSection(i) == [id |-> i, title |-> i, rawText |-> i]

InitialDocument(n) == [sections |-> [i \in 1..n |-> InitialSection(i)]]

\* The same document after a categorization run that found a preamble followed
\* by provisions.
CategorizedSection(i) ==
    Put(InitialSection(i), KEY_CATEGORY,
        [type |-> IF i = 1 THEN CATEGORY_PREAMBLE ELSE CATEGORY_PROVISION,
         reasoning |-> "r"])

CategorizedDocument(n) == [sections |-> [i \in 1..n |-> CategorizedSection(i)]]

\* What the variables of a script hold while none runs.
NoDocument == EmptyDict

\* The second process before it is started.  Beside its position, in-memory
\* document, loop position and count, it keeps as history: the document it last
\* read from or wrote to the file (seen), the sections whose summary it has
\* put in the file (saved), those among them it put there while the first
\* process was between its load and its exit (stale), and whether it has
\* written over a file that was no longer the one it had seen (overwrote).
NoOther ==
    [pc |-> "new", bill_data |-> NoDocument, seen |-> NoDocument, idx |-> 0, count |-> 0,
     saved |-> {}, stale |-> {}, overwrote |-> FALSE]

\* bill_data.get('sections', [])
Sections(doc) == Get(doc, KEY_SECTIONS, <<>>)

\* A faulty assignment, which puts the annotated section at the end of the list:
\* C11 must not hold of a script that uses it.
SetFieldAtEnd(doc, i, key, value) ==
    [doc EXCEPT !.sections = SubSeq(@, 1, i - 1) \o SubSeq(@, i + 1, Len(@))
                               \o <<Put(@[i], key, value)>>]

\* section[key] = value on the idx-th section of the in-memory document.
SetField(doc, i, key, value) == [doc EXCEPT !.sections[i] = Put(@, key, value)]

\* ---------------------------------------------------------- process steps
\* The script returns or dies: main() ends the process, its memory is gone.
Exit(how) ==
    /\ pc' = "idle"
    /\ outcome' = how
    /\ bill_data' = NoDocument
    /\ idx' = 0
    /\ count' = 0
    /\ impactful_provisions' = <<>>
    /\ key_concerns' = <<>>
    /\ bill_context' = ""

\* An exception leaves process_bill; main() prints it and calls sys.exit(1).
Raise == Exit("error")

\* The script is started: flags parsed, history of the run reset.
Begin(st, dr, fo) ==
    /\ pc = "idle"
    /\ runs < MaxRuns
    /\ runs' = runs + 1
    /\ UNCHANGED other
    /\ stage' = st
    /\ dry_run' = dr
    /\ force' = fo
    /\ loaded' = IF torn THEN NoDocument ELSE disk
    /\ calls' = {}
    /\ failed' = {}
    /\ unsaved' = {}

\* A faulty save, which keeps the document in memory and goes on without opening
\* the file: C24 must not hold of a script that uses it.
KeepInMemory(doc, then) ==
    /\ bill_data' = doc
    /\ pc' = IF then = "save" THEN "loop" ELSE then
    /\ UNCHANGED <<disk, torn>>

\* open(json_path, 'w'): the file is truncated; json.dump then writes it piece by
\* piece, so until the write is complete the file holds no parseable document.
OpenForWrite(doc, then) ==
    /\ torn' = TRUE
    /\ disk' = NoDocument
    /\ bill_data' = doc
    /\ pc' = then

\* A faulty save, which leaves the raw text of the sections out of the file:
\* C22 must not hold of a script that uses it.
WriteWithoutRawText ==
    /\ UNCHANGED <<runs, other>>
    /\ pc \in {"save", "final"}
    /\ disk' = [bill_data EXCEPT !.sections =
                  [i \in DOMAIN @ |-> [k \in (DOMAIN @[i]) \ {"rawText"} |-> @[i][k]]]]
    /\ torn' = FALSE
    /\ unsaved' = {}
    /\ IF pc = "save"
       THEN /\ pc' = "loop"
            /\ UNCHANGED <<run_vars, outcome>>
       ELSE Exit("ok")
    /\ UNCHANGED <<stage, dry_run, force, loaded, calls, failed>>

\* json.dump returned and the file is closed: the file holds the whole in-memory
\* document.  After a progress save the loop goes on, after the last save the
\* script returns.
WriteComplete ==
    /\ UNCHANGED <<runs, other>>
    /\ pc \in {"save", "final"}
    /\ disk' = bill_data
    /\ torn' = FALSE
    /\ unsaved' = {}
    /\ IF pc = "save"
       THEN /\ pc' = "loop"
            /\ UNCHANGED <<run_vars, outcome>>
       ELSE Exit("ok")
    /\ UNCHANGED <<stage, dry_run, force, loaded, calls, failed>>

\* json.dump raises midway (an OSError): the file stays as far as it was written.
WriteFails ==
    /\ UNCHANGED <<runs, other>>
    /\ pc \in {"save", "final"}
    /\ Raise
    /\ UNCHANGED <<disk, torn, stage, dry_run, force, loaded, calls, failed, unsaved>>

\* The process is interrupted (killed, Ctrl-C) wherever it is.  It reports
\* nothing: the history of the run ends with it.
Interrupt ==
    /\ UNCHANGED <<runs, other>>
    /\ pc # "idle"
    /\ Exit("interrupted")
    /\ loaded' = NoDocument
    /\ calls' = {}
    /\ failed' = {}
    /\ unsaved' = {}
    /\ UNCHANGED <<disk, torn, stage, dry_run, force>>

\* A faulty load, which takes the document the script's previous run loaded,
\* when there was one, instead of reading the file: C30 must not hold of a
\* script that uses it.
EnterLoopCached(context) ==
    /\ pc' = "loop"
    /\ outcome' = "running"
    /\ bill_data' = IF loaded # NoDocument THEN loaded ELSE disk
    /\ idx' = 1
    /\ count' = 0
    /\ impactful_provisions' = <<>>
    /\ key_concerns' = <<>>
    /\ bill_context' = context

\* json.load of the file, then the loop over the sections is entered.
EnterLoop(context) ==
    /\ pc' = "loop"
    /\ outcome' = "running"
    /\ bill_data' = disk
    /\ idx' = 1
    /\ count' = 0
    /\ impactful_provisions' = <<>>
    /\ key_concerns' = <<>>
    /\ bill_context' = context

\* "continue": the loop goes to the next section and nothing else changes.
Continue ==
    /\ idx' = idx + 1
    /\ UNCHANGED <<disk, torn, pc, bill_data, count, impactful_provisions, key_concerns,
                   bill_context, hist_vars, outcome>>

\* A faulty failure path, which saves what a bill-level script has generated so
\* far before the script dies: C27 must not hold of a script that uses it.
AnnotatorPartialSaved(id) ==
    /\ calls' = calls \cup {id}
    /\ failed' = failed \cup {id}
    /\ Raise
    /\ disk' = IF stage = CONCERNS THEN Put(disk, KEY_CONCERNS, key_concerns)
               ELSE IF stage = EXECUTIVE THEN Put(disk, KEY_EXEC, "")
               ELSE disk
    /\ UNCHANGED <<torn, loaded, unsaved>>

\* A faulty failure path, which stores an error value in the section's field
\* of the file before the script dies: C18 must not hold of a script that uses it.
AnnotatorErrorSaved(id) ==
    /\ calls' = calls \cup {id}
    /\ failed' = failed \cup {id}
    /\ Raise
    /\ disk' = IF stage = CATEGORIZE
               THEN SetField(disk, id, KEY_CATEGORY, [type |-> "error", reasoning |-> "error"])
               ELSE SetField(disk, id, IF stage = SUMMARIZE THEN KEY_SUMMARY ELSE KEY_IMPACT,
                             "error")
    /\ UNCHANGED <<torn, loaded, unsaved>>

\* The annotator call for the current section raises; nothing was assigned yet.
AnnotatorRaises(id) ==
    /\ calls' = calls \cup {id}
    /\ failed' = failed \cup {id}
    /\ Raise
    /\ UNCHANGED <<disk, torn, loaded, unsaved>>

\* A faulty context, without the placeholder: C12 must not hold of a script that
\* uses it.
RawContext(doc) == Get(doc, KEY_EXEC, "")

\* executive_summary = bill_data.get('executiveSummary', ''), replaced by the
\* placeholder when it is missing or empty.
BillContext(doc) ==
    LET executive_summary == Get(doc, KEY_EXEC, "") IN
    IF ~TruthyStr(executive_summary) THEN NO_EXEC_SUMMARY ELSE executive_summary

\* ------------------------------------------------ 3_categorize_sections.py
\* A faulty skip test, which takes no section as categorized: C9 must not
\* hold of a script that uses it.
NothingCategorized(section) == FALSE

\* A faulty skip test, which does not read the force flag: C16 must not hold of
\* a script that uses it.
CategorizedWhateverForce(section) == Has(section, KEY_CATEGORY)

\* "Skip if already categorized (unless force mode)"
AlreadyCategorized(section) == Has(section, KEY_CATEGORY) /\ ~force

CategorizeStart(dr, fo) ==
    /\ Begin(CATEGORIZE, dr, fo)
    /\ UNCHANGED <<disk, torn>>
    /\ IF torn
       THEN Raise
       ELSE IF Sections(disk) = <<>> THEN Exit("ok") ELSE EnterLoop("")

\* One pass of the loop over the sections.
CategorizeIteration(outs) ==
    /\ UNCHANGED <<runs, other>>
    /\ pc = "loop"
    /\ stage = CATEGORIZE
    /\ idx <= Len(Sections(bill_data))
    /\ UNCHANGED flag_vars
    /\ LET section == Sections(bill_data)[idx] IN
       IF AlreadyCategorized(section)
       THEN Continue
       ELSE \/ AnnotatorRaises(section.id)
            \/ \E category_type \in outs :
                 IF category_type \notin SectionCategory
                 THEN \* category_counts[category_type] raises KeyError
                      AnnotatorRaises(section.id)
                 ELSE LET doc == SetField(bill_data, idx, KEY_CATEGORY,
                                          [type |-> category_type, reasoning |-> "r"]) IN
                      /\ calls' = calls \cup {section.id}
                      /\ idx' = idx + 1
                      /\ UNCHANGED <<count, impactful_provisions, key_concerns,
                                     bill_context, loaded, failed, outcome>>
                      /\ IF ~dry_run
                         THEN /\ OpenForWrite(doc, "save")
                              /\ unsaved' = unsaved \cup {section.id}
                         ELSE /\ bill_data' = doc
                              /\ unsaved' = unsaved \cup {section.id}
                              /\ UNCHANGED <<disk, torn, pc>>

\* The loop is over; the script has nothing left to write.
CategorizeFinish ==
    /\ UNCHANGED <<runs, other>>
    /\ pc = "loop"
    /\ stage = CATEGORIZE
    /\ idx > Len(Sections(bill_data))
    /\ Exit("ok")
    /\ UNCHANGED <<disk, torn, flag_vars, hist_vars>>

\* ------------------------- 4_summarize_sections.py and 6_assess_impact.py
\* The two scripts run the same loop, one over 'summary', one over 'impact'.
BatchedStart(st, dr, fo) ==
    /\ Begin(st, dr, fo)
    /\ UNCHANGED <<disk, torn>>
    /\ IF torn
       THEN Raise
       ELSE IF Sections(disk) = <<>>
       THEN Exit("ok")
       ELSE EnterLoop(IF st = IMPACT THEN BillContext(disk) ELSE "")

\* A faulty selector, which takes every categorized section: C10 must not hold
\* of a script that uses it.
AnyCategorized(section) == Has(section, KEY_CATEGORY)

\* "Only process provisions"
IsProvision(section) == CategoryType(section, "unknown") = CATEGORY_PROVISION

\* Two faulty skip tests: one that skips nothing (C3 must not hold of it), one
\* that reads the force flag the wrong way round (C5 must not hold of it).
NothingDone(section, key) == FALSE

DoneWhenForced(section, key) == Has(section, key) /\ force

\* "Skip if already summarized (unless force mode)", and the same for 'impact'.
AlreadyDone(section, key) == Has(section, key) /\ ~force

\* A faulty checkpoint test, which is never due: C4 must not hold of it.
NeverDue(n) == FALSE

\* "Batch disk writes - save every BATCH_SIZE provisions (unless dry run)"
SaveDue(n) == ~dry_run /\ n % BATCH_SIZE = 0

BatchedIteration(st, key, outs) ==
    /\ UNCHANGED <<runs, other>>
    /\ pc = "loop"
    /\ stage = st
    /\ idx <= Len(Sections(bill_data))
    /\ UNCHANGED flag_vars
    /\ LET section == Sections(bill_data)[idx] IN
       IF ~IsProvision(section)
       THEN Continue
       ELSE IF AlreadyDone(section, key)
       THEN Continue
       ELSE \/ AnnotatorRaises(section.id)
            \/ \E result \in outs :
                 LET doc == SetField(bill_data, idx, key, result) IN
                 /\ calls' = calls \cup {section.id}
                 /\ unsaved' = unsaved \cup {section.id}
                 /\ idx' = idx + 1
                 /\ count' = count + 1
                 /\ UNCHANGED <<impactful_provisions, key_concerns, bill_context,
                                loaded, failed, outcome>>
                 /\ IF SaveDue(count + 1)
                    THEN OpenForWrite(doc, "save")
                    ELSE /\ bill_data' = doc
                         /\ UNCHANGED <<disk, torn, pc>>

\* "Final save for remaining provisions", then the script returns.
BatchedFinish(st) ==
    /\ UNCHANGED <<runs, other>>
    /\ pc = "loop"
    /\ stage = st
    /\ idx > Len(Sections(bill_data))
    /\ UNCHANGED <<flag_vars, hist_vars>>
    /\ IF ~dry_run
       THEN /\ OpenForWrite(bill_data, "final")
            /\ UNCHANGED <<idx, count, impactful_provisions, key_concerns, bill_context,
                           outcome>>
       ELSE /\ Exit("ok")
            /\ UNCHANGED <<disk, torn>>

SummarizeStart(dr, fo) == BatchedStart(SUMMARIZE, dr, fo)

SummarizeIteration(outs) == BatchedIteration(SUMMARIZE, KEY_SUMMARY, outs)

SummarizeFinish == BatchedFinish(SUMMARIZE)

ImpactStart(dr, fo) == BatchedStart(IMPACT, dr, fo)

ImpactIteration(outs) == BatchedIteration(IMPACT, KEY_IMPACT, outs)

ImpactFinish == BatchedFinish(IMPACT)

\* A faulty completion test, which never finds the key: C17 must not hold of a
\* script that uses it.
NeverGenerated(doc, key, fo) == FALSE

\* A faulty skip test, which takes an empty list of concerns for a missing one:
\* C28 must not hold of a script that uses it.
NonEmptyGenerated(doc, key, fo) ==
    IF key = KEY_CONCERNS
    THEN Has(doc, key) /\ ~fo /\ doc[key] # <<>>
    ELSE Has(doc, key) /\ ~fo

\* "Check if already has executive summary" (key concerns, metadata): the key
\* is in the document and force is off.
AlreadyGenerated(doc, key, fo) == Has(doc, key) /\ ~fo

\* The item of a bill-level script is the document itself.
BILL == 0

\* The provisions of a section list, as indices.
Provisions(sections) ==
    {i \in 1..Len(sections) : CategoryType(sections[i], "") = CATEGORY_PROVISION}

\* ------------------------------------------ 5_generate_executive_summary.py
ExecutiveStart(dr, fo) ==
    /\ Begin(EXECUTIVE, dr, fo)
    /\ UNCHANGED <<disk, torn>>
    /\ IF torn
       THEN Raise
       ELSE IF AlreadyGenerated(disk, KEY_EXEC, fo)
       THEN Exit("ok")
       ELSE IF Sections(disk) = <<>>
       THEN Exit("ok")
       ELSE IF Provisions(Sections(disk)) = {}
       THEN Exit("ok")
       ELSE /\ pc' = "generate"
            /\ outcome' = "running"
            /\ bill_data' = disk
            /\ UNCHANGED <<idx, count, impactful_provisions, key_concerns, bill_context>>

\* generate_executive_summary, then the one save.
ExecutiveGenerate(outs) ==
    /\ UNCHANGED <<runs, other>>
    /\ pc = "generate"
    /\ stage = EXECUTIVE
    /\ UNCHANGED flag_vars
    /\ \/ AnnotatorRaises(BILL)
       \/ \E executive_summary \in outs :
            /\ calls' = calls \cup {BILL}
            /\ UNCHANGED <<loaded, failed>>
            /\ IF dry_run
               THEN /\ Exit("ok")
                    /\ UNCHANGED <<disk, torn, unsaved>>
               ELSE /\ OpenForWrite(Put(bill_data, KEY_EXEC, executive_summary), "final")
                    /\ unsaved' = unsaved \cup {BILL}
                    /\ UNCHANGED <<idx, count, impactful_provisions, key_concerns,
                                   bill_context, outcome>>

\* ---------------------------------------------- 8_generate_key_concerns.py
TOPICS == <<"Digital Innovation", "Freedom of Speech", "Privacy & Data Rights",
            "Business Environment">>

SEVERE_NEGATIVE == "severe-negative"
HIGH_NEGATIVE == "high-negative"

\* The first topic, in TOPICS order, whose level is the given one; 0 when none.
FirstTopic(impact_levels, level) ==
    LET hits == {k \in 1..Len(TOPICS) : Get(impact_levels, TOPICS[k], "none") = level} IN
    IF hits = {} THEN 0 ELSE CHOOSE k \in hits : \A h \in hits : k <= h

\* The candidate record of a section ('' when it is no candidate): the data of
\* the provision with the level and topic found for it.
ProvisionData(section, level) ==
    LET impact == Get(section, KEY_IMPACT, EmptyDict)
        impact_levels == Get(impact, "levels", EmptyDict) IN
    [id |-> Get(section, "id", ""),
     confidence |-> Get(impact, "confidence", 5),
     impact_level |-> level,
     topic |-> TOPICS[FirstTopic(impact_levels, level)]]

\* A faulty choice of the list, by the first topic that is severe-negative or
\* high-negative: C29 must not hold of a script that uses it.
BandOfFirstHit(section) ==
    LET impact == Get(section, KEY_IMPACT, EmptyDict)
        impact_levels == Get(impact, "levels", EmptyDict)
        severe == FirstTopic(impact_levels, SEVERE_NEGATIVE)
        high == FirstTopic(impact_levels, HIGH_NEGATIVE) IN
    IF CategoryType(section, "") # CATEGORY_PROVISION THEN "none"
    ELSE IF ~TruthyDict(impact) THEN "none"
    ELSE IF severe = 0 /\ high = 0 THEN "none"
    ELSE IF high # 0 /\ (severe = 0 \/ high < severe) THEN "high"
    ELSE "severe"

\* Which list the section goes to: "severe", "high" or "none".
Band(section) ==
    LET impact == Get(section, KEY_IMPACT, EmptyDict)
        impact_levels == Get(impact, "levels", EmptyDict) IN
    IF CategoryType(section, "") # CATEGORY_PROVISION THEN "none"
    ELSE IF ~TruthyDict(impact) THEN "none"
    ELSE IF FirstTopic(impact_levels, SEVERE_NEGATIVE) # 0 THEN "severe"
    ELSE IF FirstTopic(impact_levels, HIGH_NEGATIVE) # 0 THEN "high"
    ELSE "none"

\* severe_provisions and high_provisions as the loop over the sections builds
\* them: in section order.
RECURSIVE Collect(_, _)
Collect(sections, band) ==
    IF sections = <<>> THEN <<>>
    ELSE LET n == Len(sections)
             rest == Collect(SubSeq(sections, 1, n - 1), band) IN
         IF Band(sections[n]) = band
         THEN Append(rest, ProvisionData(sections[n],
                                         IF band = "severe" THEN SEVERE_NEGATIVE
                                                            ELSE HIGH_NEGATIVE))
         ELSE rest

\* list.sort(key=..., reverse=True): stable, descending by confidence.
InsertByConfidence(sorted, x) ==
    LET before == {k \in 1..Len(sorted) : sorted[k].confidence >= x.confidence}
        n == Cardinality(before) IN
    SubSeq(sorted, 1, n) \o <<x>> \o SubSeq(sorted, n + 1, Len(sorted))

RECURSIVE SortByConfidence(_)
SortByConfidence(list) ==
    IF list = <<>> THEN <<>>
    ELSE InsertByConfidence(SortByConfidence(SubSeq(list, 1, Len(list) - 1)),
                            list[Len(list)])

\* A faulty candidate list, capped at two: C13 must not hold of a script that
\* uses it.
CappedProvisions(sections) ==
    LET all == Collect(sections, "severe") \o SortByConfidence(Collect(sections, "high")) IN
    SubSeq(all, 1, IF Len(all) > 2 THEN 2 ELSE Len(all))

\* impactful_provisions = severe_provisions + sorted high_provisions
ImpactfulProvisions(sections) ==
    Collect(sections, "severe") \o SortByConfidence(Collect(sections, "high"))

\* severity_order.get(x['severity'], 99)
SeverityOrder(severity) ==
    CASE severity = "critical" -> 0
      [] severity = "high" -> 1
      [] severity = "medium" -> 2
      [] severity = "low" -> 3
      [] OTHER -> 99

\* key_concerns.sort(key=severity_order): stable, ascending.
InsertBySeverity(sorted, x) ==
    LET before == {k \in 1..Len(sorted) :
                     SeverityOrder(sorted[k].severity) <= SeverityOrder(x.severity)}
        n == Cardinality(before) IN
    SubSeq(sorted, 1, n) \o <<x>> \o SubSeq(sorted, n + 1, Len(sorted))

\* A faulty sort, which leaves the concerns in the order they were generated:
\* C23 must not hold of a script that uses it.
GenerationOrder(list) == list

RECURSIVE SortBySeverity(_)
SortBySeverity(list) ==
    IF list = <<>> THEN <<>>
    ELSE InsertBySeverity(SortBySeverity(SubSeq(list, 1, Len(list) - 1)),
                          list[Len(list)])

\* The concern generate_key_concern returns for a provision; its texts (title,
\* slug id, description) are left out.
Concern(provision, severity) ==
    [severity |-> severity, relatedProvisions |-> <<provision.id>>]

ConcernsStart(dr, fo) ==
    /\ Begin(CONCERNS, dr, fo)
    /\ IF torn
       THEN Raise /\ UNCHANGED <<disk, torn>>
       ELSE IF AlreadyGenerated(disk, KEY_CONCERNS, fo)
       THEN Exit("ok") /\ UNCHANGED <<disk, torn>>
       ELSE IF Sections(disk) = <<>>
       THEN Exit("ok") /\ UNCHANGED <<disk, torn>>
       ELSE IF ImpactfulProvisions(Sections(disk)) = <<>>
       THEN \* "Clearing any existing key concerns": written whatever dry_run is
            /\ OpenForWrite(Put(disk, KEY_CONCERNS, <<>>), "final")
            /\ outcome' = "running"
            /\ idx' = 0
            /\ count' = 0
            /\ impactful_provisions' = <<>>
            /\ key_concerns' = <<>>
            /\ bill_context' = BillContext(disk)
       ELSE /\ pc' = "concerns"
            /\ outcome' = "running"
            /\ bill_data' = disk
            /\ idx' = 1
            /\ count' = 0
            /\ impactful_provisions' = ImpactfulProvisions(Sections(disk))
            /\ key_concerns' = <<>>
            /\ bill_context' = BillContext(disk)
            /\ UNCHANGED <<disk, torn>>

\* One pass of "Generate one concern per provision".
ConcernsIteration(outs) ==
    /\ UNCHANGED <<runs, other>>
    /\ pc = "concerns"
    /\ stage = CONCERNS
    /\ idx <= Len(impactful_provisions)
    /\ UNCHANGED flag_vars
    /\ LET provision == impactful_provisions[idx] IN
       \/ AnnotatorRaises(provision.id)
       \/ \E severity \in outs :
            /\ key_concerns' = Append(key_concerns, Concern(provision, severity))
            /\ calls' = calls \cup {provision.id}
            /\ idx' = idx + 1
            /\ UNCHANGED <<disk, torn, pc, bill_data, count, impactful_provisions,
                           bill_context, loaded, failed, unsaved, outcome>>

\* The concerns are sorted and, unless it is a dry run, saved.
ConcernsFinish ==
    /\ UNCHANGED <<runs, other>>
    /\ pc = "concerns"
    /\ stage = CONCERNS
    /\ idx > Len(impactful_provisions)
    /\ UNCHANGED <<flag_vars, loaded, calls, failed>>
    /\ IF dry_run
       THEN /\ Exit("ok")
            /\ UNCHANGED <<disk, torn, unsaved>>
       ELSE /\ OpenForWrite(Put(bill_data, KEY_CONCERNS, SortBySeverity(key_concerns)),
                            "final")
            /\ unsaved' = unsaved \cup {BILL}
            /\ UNCHANGED <<idx, count, impactful_provisions, key_concerns, bill_context,
                           outcome>>

\* ---------------------------------------------------- 9_enrich_metadata.py
calculate_statistics(sections) ==
    LET CountsAsProvision(s) == CategoryType(s, "") = CATEGORY_PROVISION
        CountsAsPreamble(s) == CategoryType(s, "") = CATEGORY_PREAMBLE
        CountsAsMetadata(s) == CategoryType(s, "") = CATEGORY_METADATA
        WithSummary(s) == TruthyStr(Get(s, KEY_SUMMARY, ""))
        WithImpacts(s) == TruthyDict(Get(s, "impacts", EmptyDict))
        Count(Test(_)) == Cardinality({i \in 1..Len(sections) : Test(sections[i])}) IN
    [totalSections |-> Len(sections),
     provisions |-> Count(CountsAsProvision),
     preambles |-> Count(CountsAsPreamble),
     metadata |-> Count(CountsAsMetadata),
     withSummaries |-> Count(WithSummary),
     withImpacts |-> Count(WithImpacts)]

\* The script has no --dry-run option: main() reads --force only, so a --dry-run
\* on its command line (dr) changes nothing.  now is datetime.now().
enrich_metadata(dr, fo, now) ==
    /\ Begin(METADATA, dr, fo)
    /\ IF torn
       THEN Raise /\ UNCHANGED <<disk, torn>>
       ELSE IF AlreadyGenerated(disk, KEY_METADATA, fo)
       THEN Exit("ok") /\ UNCHANGED <<disk, torn>>
       ELSE IF Sections(disk) = <<>>
       THEN Exit("ok") /\ UNCHANGED <<disk, torn>>
       ELSE /\ OpenForWrite(Put(disk, KEY_METADATA,
                                [processedAt |-> now,
                                 statistics |-> calculate_statistics(Sections(disk))]),
                            "final")
            /\ outcome' = "running"
            /\ UNCHANGED <<idx, count, impactful_provisions, key_concerns, bill_context>>

\* ------------------------------------------------- what the annotators return
\* The categorizer's answers: the three categories, and one outside them.
CategoryOutputs == SectionCategory \cup {"other"}

\* The answers drawn where every script runs: a provision, a non-provision,
\* and one outside the categories.
FewCategoryOutputs == {CATEGORY_PROVISION, CATEGORY_PREAMBLE, "other"}

SummaryOutputs == {"summary A", "summary B"}

ExecutiveOutputs == {"executive A", "executive B"}

\* An impact result: a level per topic and a confidence (the reasoning text is
\* left out).
ImpactResult(l1, l2, l3, l4, confidence) ==
    [levels |-> (TOPICS[1] :> l1) @@ (TOPICS[2] :> l2) @@ (TOPICS[3] :> l3) @@ (TOPICS[4] :> l4),
     confidence |-> confidence]

ImpactOutputs ==
    {ImpactResult("neutral", SEVERE_NEGATIVE, "neutral", HIGH_NEGATIVE, 9),
     ImpactResult(HIGH_NEGATIVE, "neutral", "low-positive", "neutral", 7),
     ImpactResult("neutral", "medium-negative", "neutral", "high-positive", 8)}

Severity == {"critical", "high", "medium", "low"}

Clock == {"t1", "t2"}

\* ---------------------------------------------------------- specification
InitWith(document) ==
    /\ disk = document
    /\ torn = FALSE
    /\ pc = "idle"
    /\ stage = CATEGORIZE
    /\ dry_run = FALSE
    /\ force = FALSE
    /\ bill_data = NoDocument
    /\ idx = 0
    /\ count = 0
    /\ impactful_provisions = <<>>
    /\ key_concerns = <<>>
    /\ bill_context = ""
    /\ loaded = NoDocument
    /\ calls = {}
    /\ failed = {}
    /\ unsaved = {}
    /\ outcome = "none"
    /\ runs = 0
    /\ other = NoOther

\* Every script, on the upstream document and on a categorized one.
Init ==
    \E document \in {InitialDocument(NSec), CategorizedDocument(NSec)} : InitWith(document)

Next ==
    \/ \E dr \in BOOLEAN, fo \in BOOLEAN : CategorizeStart(dr, fo)
    \/ CategorizeIteration(FewCategoryOutputs)
    \/ CategorizeFinish
    \/ \E dr \in BOOLEAN, fo \in BOOLEAN : SummarizeStart(dr, fo)
    \/ SummarizeIteration(SummaryOutputs)
    \/ SummarizeFinish
    \/ \E dr \in BOOLEAN, fo \in BOOLEAN : ExecutiveStart(dr, fo)
    \/ ExecutiveGenerate(ExecutiveOutputs)
    \/ \E dr \in BOOLEAN, fo \in BOOLEAN : ImpactStart(dr, fo)
    \/ ImpactIteration(ImpactOutputs)
    \/ ImpactFinish
    \/ \E dr \in BOOLEAN, fo \in BOOLEAN : ConcernsStart(dr, fo)
    \/ ConcernsIteration(Severity)
    \/ ConcernsFinish
    \/ \E dr \in BOOLEAN, fo \in BOOLEAN, now \in Clock : enrich_metadata(dr, fo, now)
    \/ WriteComplete
    \/ WriteFails
    \/ Interrupt

Spec == Init /\ [][Next]_vars

\* The per-section scripts alone, on the upstream document and on a
\* categorized one.
InitSections ==
    \E document \in {InitialDocument(NSec), CategorizedDocument(NSec)} : InitWith(document)

NextSections ==
    \/ \E dr \in BOOLEAN, fo \in BOOLEAN : CategorizeStart(dr, fo)
    \/ CategorizeIteration(CategoryOutputs)
    \/ CategorizeFinish
    \/ \E dr \in BOOLEAN, fo \in BOOLEAN : SummarizeStart(dr, fo)
    \/ SummarizeIteration(SummaryOutputs)
    \/ SummarizeFinish
    \/ \E dr \in BOOLEAN, fo \in BOOLEAN : ImpactStart(dr, fo)
    \/ ImpactIteration(ImpactOutputs)
    \/ ImpactFinish
    \/ WriteComplete
    \/ WriteFails
    \/ Interrupt

SpecSections == InitSections /\ [][NextSections]_vars

\* The per-section scripts on a long document, upstream or categorized, with
\* deterministic annotators: each answers the same for every section.
CategoryAnswer == CATEGORY_PROVISION

SummaryAnswer == "summary A"

ImpactAnswer == ImpactResult("neutral", SEVERE_NEGATIVE, "neutral", HIGH_NEGATIVE, 9)

InitLong ==
    \E document \in {InitialDocument(NLong), CategorizedDocument(NLong)} : InitWith(document)

NextLong ==
    \/ \E dr \in BOOLEAN, fo \in BOOLEAN : CategorizeStart(dr, fo)
    \/ CategorizeIteration({CategoryAnswer})
    \/ CategorizeFinish
    \/ \E dr \in BOOLEAN, fo \in BOOLEAN : SummarizeStart(dr, fo)
    \/ SummarizeIteration({SummaryAnswer})
    \/ SummarizeFinish
    \/ \E dr \in BOOLEAN, fo \in BOOLEAN : ImpactStart(dr, fo)
    \/ ImpactIteration({ImpactAnswer})
    \/ ImpactFinish
    \/ WriteComplete
    \/ WriteFails
    \/ Interrupt

SpecLong == InitLong /\ [][NextLong]_vars

\* Key-concern generation on assessed documents of NCand sections.  Each section
\* is one of: a provision whose worst level is severe-negative (confidence 0.7
\* or 0.9), high-negative (0.7 or 0.9), medium-negative or low-negative, or a
\* preamble that carries a severe-negative impact.
NCand == 5

SevereImpact(confidence) ==
    ImpactResult("neutral", SEVERE_NEGATIVE, "neutral", HIGH_NEGATIVE, confidence)

HighImpact(confidence) ==
    ImpactResult(HIGH_NEGATIVE, "neutral", "low-positive", "neutral", confidence)

MediumImpact == ImpactResult("neutral", "medium-negative", "neutral", "high-positive", 8)

LowImpact == ImpactResult("low-negative", "neutral", "severe-positive", "neutral", 8)

AssessedKinds ==
    [type : {CATEGORY_PROVISION},
     impact : {SevereImpact(7), SevereImpact(9), HighImpact(7), HighImpact(9),
               MediumImpact, LowImpact}]
    \cup [type : {CATEGORY_PREAMBLE}, impact : {SevereImpact(9)}]

AssessedSection(i, kind) ==
    Put(Put(InitialSection(i), KEY_CATEGORY, [type |-> kind.type, reasoning |-> "r"]),
        KEY_IMPACT, kind.impact)

AssessedDocument(kinds) ==
    [sections |-> [i \in DOMAIN kinds |-> AssessedSection(i, kinds[i])]]

InitCandidates ==
    \E kinds \in [1..NCand -> AssessedKinds] : InitWith(AssessedDocument(kinds))

\* One forced run per document.
FirstConcernsRun == runs = 0 /\ ConcernsStart(FALSE, TRUE)

NextCandidates ==
    \/ FirstConcernsRun
    \/ ConcernsIteration({"high"})
    \/ ConcernsFinish
    \/ WriteComplete

SpecCandidates == InitCandidates /\ [][NextCandidates]_vars

\* Impact assessment and key-concern generation on a categorized document on
\* which the key-concern script has run before any impact was assessed: it found
\* no candidate and wrote the empty list.
ClearedDocument(n) == Put(CategorizedDocument(n), KEY_CONCERNS, <<>>)

InitRerun == InitWith(ClearedDocument(NSec))

NextRerun ==
    \/ \E dr \in BOOLEAN, fo \in BOOLEAN : ImpactStart(dr, fo)
    \/ ImpactIteration(ImpactOutputs)
    \/ ImpactFinish
    \/ \E dr \in BOOLEAN, fo \in BOOLEAN : ConcernsStart(dr, fo)
    \/ ConcernsIteration(Severity)
    \/ ConcernsFinish
    \/ WriteComplete
    \/ WriteFails
    \/ Interrupt

SpecRerun == InitRerun /\ [][NextRerun]_vars

\* Key-concern generation on assessed documents of NSec sections whose impacts
\* mix the levels over the topics: severe-negative after a high-negative topic
\* and on two topics, high-negative on two topics or on the first, positive
\* levels only beside a medium-negative one, and a preamble that carries a
\* severe-negative impact.
MixedKinds ==
    [type : {CATEGORY_PROVISION},
     impact : {ImpactResult(HIGH_NEGATIVE, SEVERE_NEGATIVE, "neutral", SEVERE_NEGATIVE, 7),
               ImpactResult("neutral", "neutral", "neutral", SEVERE_NEGATIVE, 8),
               ImpactResult("neutral", HIGH_NEGATIVE, "low-positive", HIGH_NEGATIVE, 9),
               ImpactResult(HIGH_NEGATIVE, "neutral", "neutral", "neutral", 7),
               ImpactResult("severe-positive", "high-positive", "neutral", "medium-negative", 8)}]
    \cup [type : {CATEGORY_PREAMBLE},
          impact : {ImpactResult("neutral", SEVERE_NEGATIVE, "neutral", HIGH_NEGATIVE, 9)}]

InitBands ==
    \E kinds \in [1..NSec -> MixedKinds] : InitWith(AssessedDocument(kinds))

SpecBands == InitBands /\ [][NextCandidates]_vars

\* --------------------------------------------- two scripts on the same file
\* `4_summarize_sections.py bill.json`, without flags, run once as a second
\* process while the impact script runs or between its runs.  Nothing
\* coordinates the two.  Its writes of the file are taken whole, and it does
\* not touch the file while the first process is writing it.
FirstProcessUnchanged ==
    UNCHANGED <<pc, stage, dry_run, force, bill_data, idx, count, impactful_provisions,
                key_concerns, bill_context, loaded, calls, failed, unsaved, outcome, runs>>

\* json.load of the file by the second process.
OtherLoad ==
    /\ other.pc = "new"
    /\ other' = IF torn \/ Sections(disk) = <<>>
                THEN [other EXCEPT !.pc = "done"]
                ELSE [other EXCEPT !.pc = "loop", !.bill_data = disk, !.seen = disk,
                                   !.idx = 1, !.count = 0]
    /\ UNCHANGED <<disk, torn>>
    /\ FirstProcessUnchanged

\* The second process after json.dump of its document: what it has put in the
\* file that was not there, and whether the file had changed under it.
OtherSaved(o, then) ==
    LET written == {i \in 1..Len(Sections(o.bill_data)) :
                       /\ KEY_SUMMARY \in DOMAIN Sections(o.bill_data)[i]
                       /\ KEY_SUMMARY \notin DOMAIN Sections(disk)[i]} IN
    [o EXCEPT !.pc = then,
              !.seen = o.bill_data,
              !.saved = @ \cup written,
              !.stale = @ \cup (IF pc # "idle" THEN written ELSE {}),
              !.overwrote = @ \/ disk # o.seen]

\* One pass of its loop over the sections.
OtherIteration ==
    /\ other.pc = "loop"
    /\ other.idx <= Len(Sections(other.bill_data))
    /\ LET section == Sections(other.bill_data)[other.idx] IN
       IF ~IsProvision(section) \/ Has(section, KEY_SUMMARY)
       THEN /\ other' = [other EXCEPT !.idx = @ + 1]
            /\ UNCHANGED <<disk, torn>>
       ELSE LET doc == SetField(other.bill_data, other.idx, KEY_SUMMARY, SummaryAnswer)
                o == [other EXCEPT !.bill_data = doc, !.idx = @ + 1, !.count = @ + 1] IN
            IF o.count % BATCH_SIZE = 0
            THEN /\ ~torn
                 /\ disk' = doc
                 /\ torn' = FALSE
                 /\ other' = OtherSaved(o, "loop")
            ELSE /\ other' = o
                 /\ UNCHANGED <<disk, torn>>
    /\ FirstProcessUnchanged

\* Its final save, and its return.
OtherFinish ==
    /\ other.pc = "loop"
    /\ other.idx > Len(Sections(other.bill_data))
    /\ ~torn
    /\ disk' = other.bill_data
    /\ torn' = FALSE
    /\ other' = [OtherSaved(other, "done") EXCEPT !.bill_data = NoDocument,
                                                  !.seen = NoDocument,
                                                  !.idx = 0, !.count = 0]
    /\ FirstProcessUnchanged

InitOverlap == InitWith(CategorizedDocument(NSec))

NextOverlap ==
    \/ \E dr \in BOOLEAN, fo \in BOOLEAN : ImpactStart(dr, fo)
    \/ ImpactIteration({ImpactAnswer})
    \/ ImpactFinish
    \/ WriteComplete
    \/ WriteFails
    \/ Interrupt
    \/ OtherLoad
    \/ OtherIteration
    \/ OtherFinish

SpecOverlap == InitOverlap /\ [][NextOverlap]_vars

\* ------------------------------------------------------------ the claims
\* What the specification calls a stage's output field, selector, work-list.
StageKey(st) ==
    CASE st = CATEGORIZE -> KEY_CATEGORY
      [] st = SUMMARIZE -> KEY_SUMMARY
      [] st = IMPACT -> KEY_IMPACT

SectionIds(doc) == 1..Len(Sections(doc))

HasField(doc, i, key) == key \in DOMAIN Sections(doc)[i]

\* The two documents agree on the field of section i: both lack it or both hold
\* the same value.
SameField(a, b, i, key) ==
    /\ HasField(a, i, key) <=> HasField(b, i, key)
    /\ HasField(a, i, key) => Sections(a)[i][key] = Sections(b)[i][key]

IsProvisionIn(doc, i) ==
    /\ HasField(doc, i, KEY_CATEGORY)
    /\ Sections(doc)[i][KEY_CATEGORY].type = CATEGORY_PROVISION

Selected(doc, st) ==
    IF st = CATEGORIZE THEN SectionIds(doc)
    ELSE {i \in SectionIds(doc) : IsProvisionIn(doc, i)}

WorkList(doc, st, fo) ==
    {i \in Selected(doc, st) : fo \/ ~HasField(doc, i, StageKey(st))}

\* A run of the script has loaded a document (the file was whole).
Loaded == runs > 0 /\ loaded # NoDocument

Ended == pc = "idle" /\ runs > 0

\* C1: failure isolation in a per-section stage.  When the annotator call for an
\* item X failed, the run has gone on to every other item of its work-list, and
\* the persisted document carries the stage's field for every item whose call
\* succeeded and nothing new for X.
C1_FailureIsolation ==
    (Ended /\ Loaded /\ stage \in SectionStages /\ ~dry_run /\ failed # {}) =>
        /\ WorkList(loaded, stage, force) \subseteq calls
        /\ ~torn
        /\ \A i \in calls \ failed : HasField(disk, i, StageKey(stage))
        /\ \A x \in failed : SameField(disk, loaded, x, StageKey(stage))

\* C2: no batch completed in memory is dropped.  When a non-dry run of a
\* per-section stage has ended, by returning or because an item failed, every
\* item completed in memory has been written to the file.
C2_CompletedWorkPersisted ==
    (Ended /\ ~dry_run /\ stage \in SectionStages /\ (outcome = "ok" \/ failed # {})) =>
        unsaved = {}

\* The document an uninterrupted force=false run of the stage makes of doc when
\* the annotator answers the same for every item.
Answer(st) ==
    CASE st = CATEGORIZE -> [type |-> CategoryAnswer, reasoning |-> "r"]
      [] st = SUMMARIZE -> SummaryAnswer
      [] st = IMPACT -> ImpactAnswer

Completed(doc, st) ==
    [doc EXCEPT !.sections =
        [i \in SectionIds(doc) |->
            IF i \in WorkList(doc, st, FALSE) THEN Put(@[i], StageKey(st), Answer(st))
                                              ELSE @[i]]]

\* C3: resumability.  A force=false run of a per-section stage, started on
\* whatever an earlier (interrupted) run persisted, invokes the annotator only
\* for selected items that have no field in the persisted document, and when it
\* returns it has invoked it for exactly those; with the deterministic annotator
\* the file then equals the document of an uninterrupted run, and a field
\* present at the start is never changed in the file.
C3_Resumability ==
    (Loaded /\ stage \in SectionStages /\ ~force) =>
        /\ calls \subseteq WorkList(loaded, stage, FALSE)
        /\ (pc = "idle" /\ outcome = "ok") => calls = WorkList(loaded, stage, FALSE)
        /\ (pc = "idle" /\ outcome = "ok" /\ ~dry_run) =>
               ~torn /\ disk = Completed(loaded, stage)
        /\ ~torn =>
               \A i \in SectionIds(loaded) :
                   HasField(loaded, i, StageKey(stage)) =>
                       SameField(disk, loaded, i, StageKey(stage))

\* A summary run that found one checkpointed batch in the file and processed
\* only the item left.
C3_ResumedAfterCheckpoint ==
    /\ pc = "idle" /\ outcome = "ok" /\ runs = 2
    /\ stage = SUMMARIZE /\ ~force /\ ~dry_run
    /\ Cardinality({i \in SectionIds(loaded) : HasField(loaded, i, KEY_SUMMARY)}) = BATCH_SIZE
    /\ Cardinality(calls) = 1
    /\ \A i \in Selected(disk, SUMMARIZE) : HasField(disk, i, KEY_SUMMARY)

\* C4: bounded loss window.  In a non-dry run of the summary or impact stage at
\* most BATCH_SIZE items are completed in memory and not yet written, and when
\* the stage returns none is.
C4_BoundedLossWindow ==
    (runs > 0 /\ ~dry_run /\ stage \in BatchedStages) =>
        /\ Cardinality(unsaved) <= BATCH_SIZE
        /\ (pc = "idle" /\ outcome = "ok") => (unsaved = {} /\ ~torn)

\* A run in its loop right after the save of its BATCH_SIZE-th item.
C4_CheckpointTaken ==
    /\ pc = "loop" /\ stage \in BatchedStages /\ ~dry_run
    /\ count = BATCH_SIZE /\ Cardinality(calls) = BATCH_SIZE
    /\ unsaved = {} /\ ~torn
    /\ \A i \in calls : HasField(disk, i, StageKey(stage))
    /\ idx <= Len(Sections(bill_data))

\* C5: idempotence.  A force=false run of a per-section stage on a document
\* whose selected items are all complete (as the run before left it) makes no
\* annotator call, and when it returns the file holds the document it loaded.
C5_Idempotence ==
    (Loaded /\ stage \in SectionStages /\ ~force /\ WorkList(loaded, stage, FALSE) = {}) =>
        /\ calls = {}
        /\ (pc = "idle" /\ outcome = "ok") => (~torn /\ disk = loaded)

\* The second of two summary runs in a row has returned.
C5_SecondRunReturned ==
    /\ pc = "idle" /\ outcome = "ok" /\ runs = 2
    /\ stage = SUMMARIZE /\ ~force /\ ~dry_run
    /\ Cardinality(Selected(loaded, SUMMARIZE)) >= 2
    /\ \A i \in Selected(loaded, SUMMARIZE) : HasField(loaded, i, KEY_SUMMARY)
    /\ calls = {}

\* C6: atomic save.  Whenever no script runs, that is also after a write that
\* failed or was interrupted midway, the file holds a whole document.
C6_AtomicSave == pc = "idle" => ~torn

\* The prerequisite of the summary stage (every section has a category) and of
\* key-concern generation (also every provision has an impact).
PrerequisiteMet(doc, st) ==
    /\ \A i \in SectionIds(doc) : HasField(doc, i, KEY_CATEGORY)
    /\ st = CONCERNS =>
          \A i \in SectionIds(doc) : IsProvisionIn(doc, i) => HasField(doc, i, KEY_IMPACT)

\* C7: prerequisite enforcement.  A run of the summary stage or of key-concern
\* generation whose prerequisite is unmet in the loaded document invokes no
\* annotator, writes nothing and does not end as a success.
C7_PrerequisiteEnforced ==
    (Loaded /\ stage \in {SUMMARIZE, CONCERNS} /\ ~PrerequisiteMet(loaded, stage)) =>
        /\ calls = {}
        /\ ~torn
        /\ disk = loaded
        /\ outcome # "ok"

\* C8: dry run skips persistence.  From the load on, a run started with
\* --dry-run leaves the file as it was.
C8_DryRunSkipsPersistence ==
    (Loaded /\ dry_run) => (~torn /\ disk = loaded)

\* C9: a category present in the loaded document stays as it is, in memory and
\* in the file, in every run but a categorization run in force mode.
C9_CategoryNotOverwritten ==
    (Loaded /\ ~(stage = CATEGORIZE /\ force)) =>
        \A i \in SectionIds(loaded) :
            HasField(loaded, i, KEY_CATEGORY) =>
                /\ pc # "idle" => SameField(bill_data, loaded, i, KEY_CATEGORY)
                /\ ~torn => SameField(disk, loaded, i, KEY_CATEGORY)

\* A categorization run without force found categories in the file, added
\* others and returned.
C9_CategorizationResumed ==
    /\ pc = "idle" /\ outcome = "ok" /\ ~torn
    /\ stage = CATEGORIZE /\ ~force /\ ~dry_run
    /\ \E i \in SectionIds(loaded) : HasField(loaded, i, KEY_CATEGORY)
    /\ calls # {}

\* C10: selector correctness.  In a summary or impact run, forced or not, a
\* section that is no provision (another category, or none yet) is never given
\* to the annotator and stays as loaded, in memory and in the file.
C10_SelectorCorrectness ==
    (Loaded /\ stage \in BatchedStages) =>
        \A i \in SectionIds(loaded) :
            ~IsProvisionIn(loaded, i) =>
                /\ i \notin calls
                /\ pc # "idle" => Sections(bill_data)[i] = Sections(loaded)[i]
                /\ ~torn => Sections(disk)[i] = Sections(loaded)[i]

\* A forced summary or impact run over a preamble, an uncategorized section and
\* provisions has written and returned.
C10_ForcedRunOverMixedSections ==
    /\ pc = "idle" /\ outcome = "ok" /\ ~torn
    /\ stage \in BatchedStages /\ force /\ ~dry_run
    /\ calls # {}
    /\ \E i \in SectionIds(loaded) : ~HasField(loaded, i, KEY_CATEGORY)
    /\ \E i \in SectionIds(loaded) :
           HasField(loaded, i, KEY_CATEGORY) /\ ~IsProvisionIn(loaded, i)

\* The sequence of section ids of a document.
Ids(doc) == [i \in SectionIds(doc) |-> Sections(doc)[i].id]

\* C11: order preservation.  In every run of every script the section ids of
\* the in-memory document, and of the file whenever it is whole, are those of the
\* document the run loaded, in the same order; and over all runs the file keeps
\* the ids of the document the pipeline started with.
C11_OrderPreserved ==
    /\ ~torn => Ids(disk) = Ids(InitialDocument(NSec))
    /\ Loaded =>
          /\ ~torn => Ids(disk) = Ids(loaded)
          /\ pc # "idle" => Ids(bill_data) = Ids(loaded)

\* A key-concern run has written its concerns, one per candidate, and returned.
C11_ConcernsWritten ==
    /\ pc = "idle" /\ outcome = "ok" /\ ~torn
    /\ stage = CONCERNS /\ ~dry_run
    /\ calls # {}
    /\ Has(disk, KEY_CONCERNS)
    /\ Len(disk[KEY_CONCERNS]) = Cardinality(calls)

\* C12: the executive summary is optional for the impact stage.  A run of the
\* impact stage on a document without executive summary holds the placeholder
\* as the context it passes to every annotator call, ends in error only when an
\* annotator call or a write failed, and when it returns it has called the
\* annotator for its whole work-list and every provision in the file has an
\* impact.
C12_PlaceholderContext ==
    (Loaded /\ stage = IMPACT /\ ~TruthyStr(Get(loaded, KEY_EXEC, ""))) =>
        /\ pc # "idle" => bill_context = NO_EXEC_SUMMARY
        /\ (pc = "idle" /\ outcome = "error") => (failed # {} \/ torn)
        /\ (pc = "idle" /\ outcome = "ok") => calls = WorkList(loaded, IMPACT, force)
        /\ (pc = "idle" /\ outcome = "ok" /\ ~dry_run) =>
               /\ ~torn
               /\ \A i \in Selected(disk, IMPACT) : HasField(disk, i, KEY_IMPACT)

\* An impact run without executive summary has assessed several provisions and
\* returned.
C12_AssessedWithoutSummary ==
    /\ pc = "idle" /\ outcome = "ok" /\ ~torn
    /\ stage = IMPACT /\ ~dry_run
    /\ ~Has(loaded, KEY_EXEC)
    /\ Cardinality(calls) >= 2
    /\ \A i \in calls : HasField(disk, i, KEY_IMPACT)

\* The band of an impact on the specification's scale: that of its most negative
\* level over the topics.
HasLevel(impact, level) == \E topic \in DOMAIN impact.levels : impact.levels[topic] = level

BandOf(impact) ==
    IF HasLevel(impact, "severe-negative") THEN "severe"
    ELSE IF HasLevel(impact, "high-negative") THEN "high"
    ELSE "lower"

\* The provisions of the document whose impact is in the severe or high band.
Candidates(doc) ==
    {i \in SectionIds(doc) :
        /\ IsProvisionIn(doc, i)
        /\ HasField(doc, i, KEY_IMPACT)
        /\ BandOf(Sections(doc)[i][KEY_IMPACT]) \in {"severe", "high"}}

CandidateIds == {impactful_provisions[k].id : k \in 1..Len(impactful_provisions)}

\* The candidate list of the run is computed.
CandidatesComputed == Loaded /\ stage = CONCERNS /\ pc \in {"concerns", "final"}

\* Five provisions with bands severe, severe, high, medium, low.
ScenarioDocument ==
    AssessedDocument(<<[type |-> CATEGORY_PROVISION, impact |-> SevereImpact(7)],
                       [type |-> CATEGORY_PROVISION, impact |-> SevereImpact(9)],
                       [type |-> CATEGORY_PROVISION, impact |-> HighImpact(7)],
                       [type |-> CATEGORY_PROVISION, impact |-> MediumImpact],
                       [type |-> CATEGORY_PROVISION, impact |-> LowImpact]>>)

\* C13: the candidates of key-concern generation are exactly the provisions
\* whose impact is in the severe or the high band, each once, none left out; the
\* scenario document has exactly three.
C13_FullCandidateSet ==
    CandidatesComputed =>
        /\ CandidateIds = Candidates(loaded)
        /\ Len(impactful_provisions) = Cardinality(Candidates(loaded))
        /\ loaded = ScenarioDocument => Len(impactful_provisions) = 3

\* The candidates of the scenario document are computed.
C13_ScenarioCandidates ==
    /\ CandidatesComputed /\ pc = "concerns"
    /\ loaded = ScenarioDocument
    /\ CandidateIds = {1, 2, 3}

\* The impact, in the loaded document, of the k-th candidate.
CandidateImpact(k) == Sections(loaded)[impactful_provisions[k].id][KEY_IMPACT]

\* C14: the candidate list is ranked: every severe-band candidate comes before
\* every high-band candidate, and within each band, the severe band too, the
\* candidates are in descending order of confidence.
C14_CandidateRanking ==
    CandidatesComputed =>
        \A j, k \in 1..Len(impactful_provisions) :
            j < k =>
                /\ BandOf(CandidateImpact(j)) = "high" => BandOf(CandidateImpact(k)) = "high"
                /\ BandOf(CandidateImpact(j)) = BandOf(CandidateImpact(k)) =>
                       CandidateImpact(j).confidence >= CandidateImpact(k).confidence

\* The number of sections of the document of a category, and with a field set.
InCategory(doc, type) ==
    Cardinality({i \in SectionIds(doc) :
                    HasField(doc, i, KEY_CATEGORY) /\ Sections(doc)[i][KEY_CATEGORY].type = type})

WithField(doc, key) == Cardinality({i \in SectionIds(doc) : HasField(doc, i, key)})

\* A metadata run has written the metadata it computed and returned.
MetadataWritten ==
    /\ pc = "idle" /\ outcome = "ok" /\ ~torn
    /\ stage = METADATA /\ Loaded
    /\ force \/ ~Has(loaded, KEY_METADATA)
    /\ Has(disk, KEY_METADATA)

\* C15: the statistics a metadata run writes are a tally of the document it
\* loaded: the sections of each category, the sections with a summary, and the
\* sections with an impact set by the impact stage.
C15_StatisticsTally ==
    MetadataWritten =>
        LET stats == disk[KEY_METADATA].statistics IN
        /\ stats.totalSections = Len(Sections(loaded))
        /\ stats.provisions = InCategory(loaded, CATEGORY_PROVISION)
        /\ stats.preambles = InCategory(loaded, CATEGORY_PREAMBLE)
        /\ stats.metadata = InCategory(loaded, CATEGORY_METADATA)
        /\ stats.withSummaries = WithField(loaded, KEY_SUMMARY)
        /\ stats.withImpacts = WithField(loaded, KEY_IMPACT)

\* The run has returned.
Returned == pc = "idle" /\ outcome = "ok"

\* The items a run of a bill-level generating stage has to call the annotator
\* for: the bill when it has provisions (executive summary), the candidates
\* (key concerns); none when the stage's key is present and force is off.
BillWorkList(doc, st, fo) ==
    IF ~fo /\ Has(doc, IF st = EXECUTIVE THEN KEY_EXEC ELSE KEY_CONCERNS) THEN {}
    ELSE IF st = EXECUTIVE
    THEN (IF Selected(doc, SUMMARIZE) # {} THEN {BILL} ELSE {})
    ELSE Candidates(doc)

\* C16: force mode disables the completion skip.  A run calls the annotator
\* only for the items of its work-list, which with force are all the items the
\* selector matches and without force those among them that lack the field, and
\* when it returns it has called it for all of them; the file then holds a field
\* for every called section and the loaded field of every other.
C16_ForceMode ==
    Loaded =>
        /\ stage \in SectionStages =>
              /\ calls \subseteq WorkList(loaded, stage, force)
              /\ Returned => calls = WorkList(loaded, stage, force)
              /\ (Returned /\ ~dry_run) =>
                     /\ ~torn
                     /\ \A i \in SectionIds(loaded) :
                           IF i \in calls THEN HasField(disk, i, StageKey(stage))
                           ELSE SameField(disk, loaded, i, StageKey(stage))
        /\ stage \in {EXECUTIVE, CONCERNS} =>
              /\ calls \subseteq BillWorkList(loaded, stage, force)
              /\ Returned => calls = BillWorkList(loaded, stage, force)

\* A forced summary run has called the annotator for every provision and
\* replaced a summary the document had.
C16_ForcedRunReplaced ==
    /\ Returned /\ ~torn /\ Loaded
    /\ stage = SUMMARIZE /\ force /\ ~dry_run
    /\ calls = Selected(loaded, SUMMARIZE)
    /\ \E i \in calls :
          /\ HasField(loaded, i, KEY_SUMMARY)
          /\ Sections(disk)[i][KEY_SUMMARY] # Sections(loaded)[i][KEY_SUMMARY]

\* The key a bill-level stage writes.
BillKey(st) ==
    CASE st = EXECUTIVE -> KEY_EXEC
      [] st = CONCERNS -> KEY_CONCERNS
      [] st = METADATA -> KEY_METADATA

\* C17: the key of a bill-level stage is its completion marker.  A run of the
\* executive-summary, key-concern or metadata script without force on a document
\* that has the stage's key, whatever its value and whatever else the document
\* holds, returns at once: no annotator call, the file as it was.
C17_BillLevelMarker ==
    (Loaded /\ stage \in BillStages /\ ~force /\ BillKey(stage) \in DOMAIN loaded) =>
        /\ Returned
        /\ calls = {}
        /\ ~torn
        /\ disk = loaded

\* A key-concern run without force has found an empty list of concerns and a
\* categorized document, and returned.
C17_SkippedOnEmptyConcerns ==
    /\ Returned /\ Loaded /\ runs = 2
    /\ stage = CONCERNS /\ ~force /\ ~dry_run
    /\ KEY_CONCERNS \in DOMAIN loaded
    /\ loaded[KEY_CONCERNS] = <<>>
    /\ Selected(loaded, IMPACT) # {}

\* A run of a per-section stage has ended on a failed annotator call.
EndedOnFailure == Ended /\ Loaded /\ stage \in SectionStages /\ failed # {}

\* C18, as stated: an item whose annotator call failed has in the file what it
\* had before the run, no value of this run, and is in the work-list of the next
\* run of the stage without force.
C18_FailedItemSelectedAgain ==
    EndedOnFailure =>
        /\ ~torn
        /\ \A x \in failed :
              /\ SameField(disk, loaded, x, StageKey(stage))
              /\ x \in WorkList(disk, stage, FALSE)

\* C18, amended: an item whose annotator call failed has in the file what it
\* had before the run, no value of this run, and is in the work-list of the next
\* run of the stage without force when it had no field before the call; an item
\* that had one (the failed call was a forced one) keeps it and is not.
C18_FailedItemUntouched ==
    EndedOnFailure =>
        /\ ~torn
        /\ \A x \in failed :
              /\ SameField(disk, loaded, x, StageKey(stage))
              /\ x \in WorkList(disk, stage, FALSE) <=> ~HasField(loaded, x, StageKey(stage))

\* A categorization run has categorized and saved section 1 and ended on the
\* failed call for section 2.
C18_FailedAfterSuccess ==
    /\ EndedOnFailure /\ ~torn
    /\ stage = CATEGORIZE /\ ~force /\ ~dry_run
    /\ calls = {1, 2} /\ failed = {2}
    /\ HasField(disk, 1, KEY_CATEGORY)
    /\ ~HasField(disk, 2, KEY_CATEGORY)
    /\ 2 \in WorkList(disk, CATEGORIZE, FALSE)

\* C19: call once.  When a run of a per-section stage without force and with
\* persistence has ended, by returning or on another item's failure, no item
\* the annotator was successfully invoked for in the run is in the work-list of
\* the next run without force: the annotator is not invoked for it again.
C19_CallOnce ==
    (Ended /\ Loaded /\ ~torn /\ stage \in SectionStages /\ ~force /\ ~dry_run) =>
        (calls \ failed) \cap WorkList(disk, stage, FALSE) = {}

\* The run of an annotating stage has nothing to do: no item matches the
\* selector, or every matching item is complete and force is off.
EmptyWorkList ==
    /\ Loaded
    /\ \/ stage \in SectionStages /\ WorkList(loaded, stage, force) = {}
       \/ stage \in {EXECUTIVE, CONCERNS} /\ BillWorkList(loaded, stage, force) = {}

\* C20: an empty work-list is a successful no-op.  Such a run makes no
\* annotator call, does not end in error (unless a write of the file failed),
\* and when it returns the file holds the document it loaded.
C20_EmptyWorkListNoOp ==
    EmptyWorkList =>
        /\ calls = {}
        /\ (Ended /\ outcome = "error") => torn
        /\ Returned => (~torn /\ disk = loaded)

\* C21: run status.  A run in which the annotator call of an item failed does
\* not end as an error (it completes, to be reported as a partial failure), and a
\* run that loaded its document and had no failed item ends in error only when a
\* write of the file failed.
C21_RunStatus ==
    (Ended /\ Loaded) =>
        /\ failed # {} => outcome # "error"
        /\ (failed = {} /\ outcome = "error") => torn

\* A dict without one key.
Without(d, key) == [k \in (DOMAIN d) \ {key} |-> d[k]]

\* The document without what the stage writes: its field of every section, or
\* its bill-level key.
Frame(doc, st) ==
    IF st \in SectionStages
    THEN [doc EXCEPT !.sections = [i \in DOMAIN @ |-> Without(@[i], StageKey(st))]]
    ELSE Without(doc, BillKey(st))

\* C22: frame of a stage run.  Apart from the stage's own output field, the
\* in-memory document and every whole file of a run are the document the run
\* loaded (ids, titles, raw texts, the other stages' fields and keys), and after
\* a save in the loop the file is the entire in-memory document.
C22_StageFrame ==
    Loaded =>
        /\ ~torn => Frame(disk, stage) = Frame(loaded, stage)
        /\ pc # "idle" => Frame(bill_data, stage) = Frame(loaded, stage)
        /\ (pc = "loop" /\ unsaved = {} /\ ~torn) => disk = bill_data

\* An impact run on a document with an executive summary has assessed
\* provisions, saved and returned.
C22_ImpactBesideSummary ==
    /\ Returned /\ ~torn /\ Loaded
    /\ stage = IMPACT /\ ~dry_run
    /\ calls # {}
    /\ KEY_EXEC \in DOMAIN loaded
    /\ disk # loaded
    /\ \A i \in calls : HasField(disk, i, KEY_IMPACT)

\* The rank of a concern's severity: critical, high, medium, low, others last.
SeverityRank(severity) ==
    IF severity = "critical" THEN 0
    ELSE IF severity = "high" THEN 1
    ELSE IF severity = "medium" THEN 2
    ELSE IF severity = "low" THEN 3
    ELSE 99

\* Candidate a comes before candidate b in the candidate list: the severe band
\* in section order, then the high band by descending confidence (section order
\* among equals).
CandidateBefore(doc, a, b) ==
    LET ia == Sections(doc)[a][KEY_IMPACT]
        ib == Sections(doc)[b][KEY_IMPACT] IN
    \/ BandOf(ia) = "severe" /\ BandOf(ib) = "high"
    \/ BandOf(ia) = "severe" /\ BandOf(ib) = "severe" /\ a < b
    \/ /\ BandOf(ia) = "high" /\ BandOf(ib) = "high"
       /\ \/ ia.confidence > ib.confidence
          \/ ia.confidence = ib.confidence /\ a < b

\* A key-concern run has generated its concerns, written them and returned.
ConcernsWritten ==
    /\ Returned /\ ~torn /\ Loaded
    /\ stage = CONCERNS /\ ~dry_run
    /\ force \/ KEY_CONCERNS \notin DOMAIN loaded

\* C23: the keyConcerns list a run writes has one concern per candidate, each
\* related to the single id of its provision, is in the order critical, high,
\* medium, low of the generated severities, and among concerns of equal severity
\* in the order of the candidates.
C23_ConcernsSorted ==
    ConcernsWritten =>
        LET concerns == disk[KEY_CONCERNS] IN
        /\ Len(concerns) = Cardinality(Candidates(loaded))
        /\ \A k \in 1..Len(concerns) : Len(concerns[k].relatedProvisions) = 1
        /\ {concerns[k].relatedProvisions[1] : k \in 1..Len(concerns)} = Candidates(loaded)
        /\ \A j, k \in 1..Len(concerns) :
              j < k =>
                  /\ SeverityRank(concerns[j].severity) <= SeverityRank(concerns[k].severity)
                  /\ concerns[j].severity = concerns[k].severity =>
                         CandidateBefore(loaded, concerns[j].relatedProvisions[1],
                                         concerns[k].relatedProvisions[1])

\* Two concerns of equal severity are written in candidate order, the severe
\* provision of the later section first.
C23_EqualSeverityKeepsCandidateOrder ==
    /\ ConcernsWritten
    /\ Len(disk[KEY_CONCERNS]) = 2
    /\ disk[KEY_CONCERNS][1].severity = disk[KEY_CONCERNS][2].severity
    /\ disk[KEY_CONCERNS][1].relatedProvisions[1] > disk[KEY_CONCERNS][2].relatedProvisions[1]

C25_AnnotatedAreProvisions ==
    ~torn =>
        \A i \in SectionIds(disk) :
            (HasField(disk, i, KEY_SUMMARY) \/ HasField(disk, i, KEY_IMPACT)) =>
                CategoryType(Sections(disk)[i], "unknown") = CATEGORY_PROVISION

\* Every category in the whole file is of one of the three types.
CategoriesClosed ==
    ~torn =>
        \A i \in SectionIds(disk) :
            HasField(disk, i, KEY_CATEGORY) =>
                Sections(disk)[i][KEY_CATEGORY].type \in {"provision", "preamble", "metadata"}

\* A categorization run has ended on a call that raised or on an answer outside
\* the three types.
CategorizeEndedOnFailure == EndedOnFailure /\ stage = CATEGORIZE /\ ~torn

\* C26, as stated: every category in the file is of type provision, preamble or
\* metadata, and the section on which a categorization run stopped is
\* uncategorized in the file.
C26_FailedSectionUncategorized ==
    /\ CategoriesClosed
    /\ CategorizeEndedOnFailure =>
          \A x \in failed : ~HasField(disk, x, KEY_CATEGORY)

\* C26, amended: every category in the file is of type provision, preamble or
\* metadata, and the section on which a categorization run stopped has no
\* category of this run: it is uncategorized, or, when the run was forced over a
\* categorized section, it holds the category it had when the run loaded it.
C26_FailedSectionKeepsCategory ==
    /\ CategoriesClosed
    /\ CategorizeEndedOnFailure =>
          \A x \in failed :
              /\ SameField(disk, loaded, x, KEY_CATEGORY)
              /\ ~force => ~HasField(disk, x, KEY_CATEGORY)

\* A forced categorization run has recategorized section 1 and stopped on
\* section 2, which keeps its earlier category.
C26_StoppedOnCategorizedSection ==
    /\ CategorizeEndedOnFailure /\ force /\ ~dry_run
    /\ calls = {1, 2} /\ failed = {2}
    /\ HasField(loaded, 2, KEY_CATEGORY)
    /\ HasField(disk, 2, KEY_CATEGORY)
    /\ ~SameField(disk, loaded, 1, KEY_CATEGORY)

\* C27: the two generating bill-level scripts are all-or-nothing.  While the
\* script generates, and when it has ended on a failed annotator call, the file
\* is the document the run loaded (the key absent, or with its earlier value in a
\* forced run); the file is opened for writing only after the annotator has
\* answered for every item of the run: the bill, or every candidate.
C27_AllOrNothing ==
    (Loaded /\ stage \in {EXECUTIVE, CONCERNS}) =>
        /\ pc \in {"generate", "concerns"} => (~torn /\ disk = loaded)
        /\ (Ended /\ failed # {}) => (~torn /\ disk = loaded)
        /\ (torn \/ disk # loaded) =>
              (failed = {} /\ calls = BillWorkList(loaded, stage, force))

\* A key-concern run has generated one concern, ended on the failed call for
\* the next candidate, and the file has no keyConcerns.
C27_FailedAfterFirstConcern ==
    /\ Loaded /\ Ended /\ stage = CONCERNS /\ ~dry_run
    /\ failed # {} /\ calls \ failed # {}
    /\ ~torn /\ ~Has(disk, KEY_CONCERNS)

\* C28: no step of a key-concern run without force changes a keyConcerns list
\* that is in the file, whatever the sections hold: the file stays whole and
\* its keyConcerns stays what it was.
C28_ConcernsKeptWithoutForce ==
    [][(stage' = CONCERNS /\ ~force' /\ ~torn /\ Has(disk, KEY_CONCERNS)) =>
           (~torn' /\ Has(disk', KEY_CONCERNS) /\ disk'[KEY_CONCERNS] = disk[KEY_CONCERNS])]_vars

\* The empty list was written before any impact was assessed; an impact run
\* has since made a provision a candidate, and a key-concern run without force
\* has returned and left the empty list.
C28_EmptyListKeptOverCandidates ==
    /\ Returned /\ Loaded /\ ~torn
    /\ stage = CONCERNS /\ ~force /\ ~dry_run
    /\ Has(loaded, KEY_CONCERNS) /\ loaded[KEY_CONCERNS] = <<>>
    /\ Candidates(loaded) # {}
    /\ disk[KEY_CONCERNS] = <<>>

\* The first topic, in the order of TOPICS, on which the impact has the level.
FirstTopicAt(impact, level) ==
    TOPICS[CHOOSE k \in 1..Len(TOPICS) :
               /\ impact.levels[TOPICS[k]] = level
               /\ \A j \in 1..(k - 1) : impact.levels[TOPICS[j]] # level]

\* C29: a provision is a candidate exactly when one of its levels is
\* severe-negative or high-negative.  A candidate with a severe-negative level is
\* in the severe band, ahead of the high band, with its first severe-negative
\* topic, whatever high-negative topics come earlier; any other candidate is in
\* the high band with its first high-negative topic.
C29_CandidateBands ==
    CandidatesComputed =>
        /\ \A i \in SectionIds(loaded) :
              i \in CandidateIds <=>
                  /\ IsProvisionIn(loaded, i)
                  /\ HasField(loaded, i, KEY_IMPACT)
                  /\ \/ HasLevel(Sections(loaded)[i][KEY_IMPACT], "severe-negative")
                     \/ HasLevel(Sections(loaded)[i][KEY_IMPACT], "high-negative")
        /\ \A k \in 1..Len(impactful_provisions) :
              LET provision == impactful_provisions[k] IN
              IF HasLevel(CandidateImpact(k), "severe-negative")
              THEN /\ provision.impact_level = "severe-negative"
                   /\ provision.topic = FirstTopicAt(CandidateImpact(k), "severe-negative")
                   /\ \A j \in 1..(k - 1) :
                         impactful_provisions[j].impact_level = "severe-negative"
              ELSE /\ provision.impact_level = "high-negative"
                   /\ provision.topic = FirstTopicAt(CandidateImpact(k), "high-negative")

\* A provision that is high-negative on the first topic and severe-negative on
\* the second and the fourth is in the severe band with the second topic, behind
\* no high-band candidate, and the document has a high-band candidate too.
C29_SevereAfterHighTopic ==
    /\ CandidatesComputed
    /\ \E k \in 1..Len(impactful_provisions) :
          /\ CandidateImpact(k).levels[TOPICS[1]] = "high-negative"
          /\ CandidateImpact(k).levels[TOPICS[2]] = "severe-negative"
          /\ impactful_provisions[k].impact_level = "severe-negative"
          /\ impactful_provisions[k].topic = TOPICS[2]
    /\ \E k \in 1..Len(impactful_provisions) :
          impactful_provisions[k].impact_level = "high-negative"

\* C30: every run writes back, whole, the copy it loaded at its start.  So a
\* summary is lost from the file only when the summary run put it there while
\* the impact run was between its load and its exit, and an impact the impact
\* run has saved is lost only when the summary run has written over a file that
\* was no longer the one it had loaded: with runs one after the other, nothing
\* persisted is lost.
C30_LostOnlyWhenOverlapping ==
    ~torn =>
        /\ \A i \in other.saved \ other.stale : HasField(disk, i, KEY_SUMMARY)
        /\ (Loaded /\ ~dry_run /\ ~other.overwrote) =>
              \A i \in (calls \ failed) \ unsaved : HasField(disk, i, KEY_IMPACT)

\* The lost update: the summary run has put summaries in the file after the
\* impact run's load, both runs have returned, and the file, written last by
\* the impact run, holds the impacts and lacks a summary.
C30_LostUpdate ==
    /\ Returned /\ Loaded /\ ~torn /\ ~dry_run
    /\ other.pc = "done"
    /\ calls # {}
    /\ \A i \in calls : HasField(disk, i, KEY_IMPACT)
    /\ \E i \in other.stale : ~HasField(disk, i, KEY_SUMMARY)

====
